---- MODULE Spec2Model ----
(***************************************************************************)
(* Offline-first to-do list: the useTodos hook (AsyncStorage keys 'todos'  *)
(* and 'deletedTaskIds', the react-query 'todos' query) and the AllTasks   *)
(* screen handlers that drive it.  Operations run one at a time here: each *)
(* action is one completed call of a hook operation or screen handler.     *)
(***************************************************************************)
EXTENDS Integers, Sequences, FiniteSets, TLC

\* ---------------------------------------------------------------- bounds
\* task ids are 1..MaxId
MaxId == 2
\* longest stored task list explored
MaxLen == 2
\* longest deleted-id list explored
MaxDeleted == 1
\* hook calls started in one overlapping run
MaxCalls == 3
\* hook calls in flight at the same time
MaxInFlight == 2
\* NetInfo listener runs that have not finished, at the same time
MaxWaiting == 2

Ids == 1..MaxId
Titles == {"A"}
ServerTitles == {"S"}
NoDescription == "undefined"     \* the description key is absent
FormDescriptions == {""}         \* taskData.description || ''

\* ---------------------------------------------------------- the Todo type
\* A stored Todo.  Every record the program stores has isSynced set: addTodo
\* and updateTodo write false, fetchTodos writes true on server records.
Todo ==
  [id : Ids, title : Titles \cup ServerTitles,
   description : FormDescriptions \cup {NoDescription},
   completed : BOOLEAN, isSynced : BOOLEAN]

\* What the remote source returns per item: id, title, completed only.
ServerTodo == [id : Ids, title : ServerTitles, completed : {FALSE}]

\* What the add/edit form passes to addTodo.mutate / updateTodo.mutate.
NewTodoInputs ==
  [id : Ids, title : Titles, description : FormDescriptions, completed : {FALSE}]

UpdatedTodoInputs ==
  [id : Ids, title : Titles, description : FormDescriptions, completed : BOOLEAN]

\* ------------------------------------------------------ sequence helpers
RECURSIVE SelectTodos(_, _)
\* Array.prototype.filter on a task list, keeping the ids in keep.
SelectTodos(s, keep) ==
  IF s = <<>> THEN <<>>
  ELSE IF Head(s).id \in keep
       THEN <<Head(s)>> \o SelectTodos(Tail(s), keep)
       ELSE SelectTodos(Tail(s), keep)

IdsOf(s) == {s[k].id : k \in DOMAIN s}

DeletedSet(d) == {d[k] : k \in DOMAIN d}

CountId(s, i) == Cardinality({k \in DOMAIN s : s[k].id = i})

\* Remote collections: the remote source lists its items by ascending id, each
\* id once; any subset of the ids may be present.
RECURSIVE SeqsUpTo(_, _)
SeqsUpTo(S, n) ==
  IF n = 0 THEN {<<>>}
  ELSE LET shorter == SeqsUpTo(S, n - 1)
       IN  shorter \cup {Append(s, x) : s \in {t \in shorter : Len(t) = n - 1}, x \in S}

Remotes ==
  {r \in SeqsUpTo(ServerTodo, MaxId) :
      \A j, k \in DOMAIN r : j < k => r[j].id < r[k].id}

\* ------------------------------------------------------------ fetchTodos
\* mutant: the server todos are stored without the isSynced tag set
MarkSynced_Untagged(serverTodos) ==
  [k \in DOMAIN serverTodos |->
     [id |-> serverTodos[k].id, title |-> serverTodos[k].title,
      description |-> NoDescription,
      completed |-> serverTodos[k].completed, isSynced |-> FALSE]]

\* .map(todo => ({...todo, isSynced: true}))
MarkSynced(serverTodos) ==
  [k \in DOMAIN serverTodos |->
     [id |-> serverTodos[k].id, title |-> serverTodos[k].title,
      description |-> NoDescription,
      completed |-> serverTodos[k].completed, isSynced |-> TRUE]]

\* mutant: the deleted-id filter is left out
FilterDeleted_KeepsAll(synced, parsedDeletedTaskIds) == synced

\* .filter(todo => !parsedDeletedTaskIds.includes(todo.id))
FilterDeleted(synced, parsedDeletedTaskIds) ==
  SelectTodos(synced, Ids \ DeletedSet(parsedDeletedTaskIds))

serverTodosWithSync(serverTodos, parsedDeletedTaskIds) ==
  FilterDeleted(MarkSynced(serverTodos), parsedDeletedTaskIds)

\* mutant: the filter against local ids is left out
filteredServerTodos_KeepsKnown(withSync, parsedTodos) == withSync

\* .filter(serverTodo => !parsedTodos.some(localTodo => localTodo.id === serverTodo.id))
filteredServerTodos(withSync, parsedTodos) ==
  SelectTodos(withSync, Ids \ IdsOf(parsedTodos))

\* mutant: the server todos are spread first
Concat_RemoteFirst(parsedTodos, filtered) == filtered \o parsedTodos

\* [...parsedTodos, ...filteredServerTodos]
Concat(parsedTodos, filtered) == parsedTodos \o filtered

mergedTodos(parsedTodos, parsedDeletedTaskIds, serverTodos) ==
  Concat(parsedTodos,
         filteredServerTodos(serverTodosWithSync(serverTodos, parsedDeletedTaskIds),
                             parsedTodos))

\* What fetchTodos leaves under the 'todos' key.
StoredByFetch(parsedTodos, parsedDeletedTaskIds, isConnected, serverTodos) ==
  IF isConnected
  THEN mergedTodos(parsedTodos, parsedDeletedTaskIds, serverTodos)
  ELSE parsedTodos

\* mutant: offline, an empty list is returned instead of the stored one
ReturnedByFetch_OfflineEmpty(parsedTodos, parsedDeletedTaskIds, isConnected, serverTodos) ==
  IF isConnected
  THEN mergedTodos(parsedTodos, parsedDeletedTaskIds, serverTodos)
  ELSE <<>>

\* What fetchTodos returns.
ReturnedByFetch(parsedTodos, parsedDeletedTaskIds, isConnected, serverTodos) ==
  IF isConnected
  THEN mergedTodos(parsedTodos, parsedDeletedTaskIds, serverTodos)
  ELSE parsedTodos

\* -------------------------------------------------------------- mutations
\* [{...newTodo, isSynced: false}, ...parsedTodos]
PrependNew(newTodo, parsedTodos) ==
  <<[id |-> newTodo.id, title |-> newTodo.title,
     description |-> newTodo.description,
     completed |-> newTodo.completed, isSynced |-> FALSE]>> \o parsedTodos

\* mutant: the isSynced: false override is left out
MergeUpdate_KeepsSynced(todo, updatedTodo) ==
  [id |-> updatedTodo.id, title |-> updatedTodo.title,
   description |-> IF updatedTodo.description = NoDescription
                   THEN todo.description ELSE updatedTodo.description,
   completed |-> updatedTodo.completed, isSynced |-> todo.isSynced]

\* {...todo, ...updatedTodo, isSynced: false}
MergeUpdate(todo, updatedTodo) ==
  [id |-> updatedTodo.id, title |-> updatedTodo.title,
   description |-> IF updatedTodo.description = NoDescription
                   THEN todo.description ELSE updatedTodo.description,
   completed |-> updatedTodo.completed, isSynced |-> FALSE]

\* mutant: an update whose id is not stored is added to the list
MapUpdate_Upserts(parsedTodos, updatedTodo) ==
  IF updatedTodo.id \in IdsOf(parsedTodos)
  THEN [k \in DOMAIN parsedTodos |->
          IF parsedTodos[k].id = updatedTodo.id
          THEN MergeUpdate(parsedTodos[k], updatedTodo)
          ELSE parsedTodos[k]]
  ELSE Append(parsedTodos,
              [id |-> updatedTodo.id, title |-> updatedTodo.title,
               description |-> updatedTodo.description,
               completed |-> updatedTodo.completed, isSynced |-> FALSE])

\* parsedTodos.map(todo => todo.id === updatedTodo.id ? ... : todo)
MapUpdate(parsedTodos, updatedTodo) ==
  [k \in DOMAIN parsedTodos |->
     IF parsedTodos[k].id = updatedTodo.id
     THEN MergeUpdate(parsedTodos[k], updatedTodo)
     ELSE parsedTodos[k]]

RECURSIVE DropFirst(_, _)
DropFirst(s, id) ==
  IF s = <<>> THEN <<>>
  ELSE IF Head(s).id = id THEN Tail(s) ELSE <<Head(s)>> \o DropFirst(Tail(s), id)

\* mutant: only the first task with the id is removed
RemoveId_FirstOnly(parsedTodos, id) == DropFirst(parsedTodos, id)

\* parsedTodos.filter(todo => todo.id !== id)
RemoveId(parsedTodos, id) == SelectTodos(parsedTodos, Ids \ {id})

\* [...parsedDeletedTaskIds, id]
AppendDeleted(parsedDeletedTaskIds, id) == Append(parsedDeletedTaskIds, id)

\* ------------------------------------------------------------------ state
VARIABLES
  todos,            \* AsyncStorage 'todos', parsed (absent key reads as [])
  deletedTaskIds,   \* AsyncStorage 'deletedTaskIds', parsed
  invalidated,      \* the 'todos' query is stale, a refetch is pending
  lastOp,           \* the last completed call: name, arguments, return value
  corrupt,          \* the storage keys whose stored text JSON.parse rejects
  calls,            \* hook calls in flight, each between two of its awaits
  isOnline,         \* AllTasks state isOnline
  isSyncing,        \* AllTasks state isSyncing
  awaiting,         \* NetInfo listeners awaiting invalidateQueries, by stage
  lastEvent,        \* the last NetInfo event: its isConnected, and the parity of the event count
  taskData,         \* AllTasks state taskData, the add/edit form
  filter,           \* AllTasks state filter
  query             \* what useQuery('todos') hands the screen: its data, if any

vars ==
  <<todos, deletedTaskIds, invalidated, lastOp, corrupt, calls, isOnline,
    isSyncing, awaiting, lastEvent, taskData, filter, query>>

\* the list the screen displays from
viewVars == <<filter, query>>

\* what the hook operations, run one at a time, leave alone
screenVars == <<isOnline, isSyncing, awaiting, lastEvent, taskData, viewVars>>

\* lastOp records the last completed call: its name, its id argument, the
\* connectivity it saw, the remote collection R it fetched, the task list L it
\* read, the list it returned, and whether it repeats the call before it
\* (an online fetchTodos right after an online fetchTodos with the same R).
\* fetchFailed: the remote fetch of the call threw; threw: the call rejected.
Call(op, id, online, R, L, ret, again) ==
  [op |-> op, id |-> id, online |-> online, R |-> R, L |-> L, ret |-> ret,
   again |-> again, fetchFailed |-> FALSE, threw |-> FALSE]

\* a call that ended in a rejection: nothing is returned
RejectedCall(op, id, online, R, L, fetchFailed) ==
  [op |-> op, id |-> id, online |-> online, R |-> R, L |-> L, ret |-> <<>>,
   again |-> FALSE, fetchFailed |-> fetchFailed, threw |-> TRUE]

\* no NetInfo event has been delivered yet
NoEvent == [isConnected |-> "none", parity |-> 0]

\* useQuery before its first result: data is undefined
NoData == [hasData |-> FALSE, data |-> <<>>]

NoTaskData == [id |-> 0, title |-> "", description |-> "", completed |-> FALSE]

Init ==
  /\ todos = <<>>
  /\ deletedTaskIds = <<>>
  /\ invalidated = TRUE
  /\ lastOp = Call("init", 0, FALSE, <<>>, <<>>, <<>>, FALSE)
  /\ corrupt = {}
  /\ calls = <<>>
  /\ isOnline = TRUE
  /\ isSyncing = FALSE
  /\ awaiting = [waiting |-> 0, resumed |-> 0]
  /\ lastEvent = NoEvent
  /\ taskData = NoTaskData
  /\ filter = "All"
  /\ query = NoData

\* fetchTodos, the query function of useQuery('todos')
fetchTodos(isConnected, serverTodos) ==
  /\ Len(StoredByFetch(todos, deletedTaskIds, isConnected, serverTodos)) <= MaxLen
  /\ todos' = StoredByFetch(todos, deletedTaskIds, isConnected, serverTodos)
  /\ deletedTaskIds' = deletedTaskIds
  /\ invalidated' = FALSE
  /\ lastOp' = Call("fetchTodos", 0, isConnected, serverTodos, todos,
                    ReturnedByFetch(todos, deletedTaskIds, isConnected, serverTodos),
                    /\ isConnected
                    /\ lastOp.op = "fetchTodos"
                    /\ lastOp.online
                    /\ ~lastOp.threw
                    /\ lastOp.R = serverTodos)
  /\ UNCHANGED <<corrupt, calls, screenVars>>

\* fetchTodos when `await fetch(API_URL)` or `response.json()` throws: nothing
\* catches it, the query function rejects before it writes.
fetchTodosRejected ==
  /\ UNCHANGED <<todos, deletedTaskIds, invalidated>>
  /\ lastOp' = RejectedCall("fetchTodos", 0, TRUE, <<>>, todos, TRUE)
  /\ UNCHANGED <<corrupt, calls, screenVars>>

FetchOnline == \E R \in Remotes : fetchTodos(TRUE, R)

\* offline the remote source is never asked
FetchOffline == fetchTodos(FALSE, <<>>)

addTodo(newTodo) ==
  /\ Len(todos) < MaxLen
  /\ todos' = PrependNew(newTodo, todos)
  /\ deletedTaskIds' = deletedTaskIds
  /\ invalidated' = TRUE
  /\ lastOp' = Call("addTodo", newTodo.id, FALSE, <<>>, <<>>, <<>>, FALSE)
  /\ UNCHANGED <<corrupt, calls, screenVars>>

AddTodo == \E newTodo \in NewTodoInputs : addTodo(newTodo)

updateTodo(op, updatedTodo) ==
  /\ todos' = MapUpdate(todos, updatedTodo)
  /\ deletedTaskIds' = deletedTaskIds
  /\ invalidated' = TRUE
  /\ lastOp' = Call(op, updatedTodo.id, FALSE, <<>>, <<>>, <<>>, FALSE)
  /\ UNCHANGED <<corrupt, calls, screenVars>>

UpdateTodo == \E updatedTodo \in UpdatedTodoInputs : updateTodo("updateTodo", updatedTodo)

\* updateTodo.mutate({...todo, completed: !todo.completed}) on a listed item
toggleComplete(todo) ==
  updateTodo("toggleComplete", [todo EXCEPT !.completed = ~todo.completed])

ToggleComplete == \E k \in DOMAIN todos : toggleComplete(todos[k])

deleteTodo(id) ==
  /\ Len(deletedTaskIds) < MaxDeleted
  /\ todos' = RemoveId(todos, id)
  /\ deletedTaskIds' = AppendDeleted(deletedTaskIds, id)
  /\ invalidated' = TRUE
  /\ lastOp' = Call("deleteTodo", id, FALSE, <<>>, <<>>, <<>>, FALSE)
  /\ UNCHANGED <<corrupt, calls, screenVars>>

DeleteTodo == \E id \in Ids : deleteTodo(id)

\* AllTasks.handleFetchFromServer: setIsSyncing(true), clear the 'todos' key,
\* await the refetch that invalidateQueries starts, setIsSyncing(false).
\* serverTodos is what the remote source holds; the refetch reads it only
\* when it is connected.
handleFetchFromServer(isConnected, serverTodos) ==
  /\ todos' = StoredByFetch(<<>>, deletedTaskIds, isConnected, serverTodos)
  /\ deletedTaskIds' = deletedTaskIds
  /\ invalidated' = FALSE
  /\ lastOp' = Call("handleFetchFromServer", 0, isConnected, serverTodos, <<>>,
                    ReturnedByFetch(<<>>, deletedTaskIds, isConnected, serverTodos),
                    FALSE)
  /\ isSyncing' = FALSE
  /\ UNCHANGED <<corrupt, calls, viewVars, isOnline, awaiting, lastEvent, taskData>>

\* handleFetchFromServer when the refetch rejects: invalidateQueries swallows
\* the rejection, the cleared 'todos' key stays cleared.
handleFetchFromServerRejected(serverTodos) ==
  /\ todos' = <<>>
  /\ deletedTaskIds' = deletedTaskIds
  /\ invalidated' = TRUE
  /\ lastOp' = [Call("handleFetchFromServer", 0, TRUE, serverTodos, <<>>, <<>>, FALSE)
                  EXCEPT !.fetchFailed = TRUE]
  /\ isSyncing' = FALSE
  /\ UNCHANGED <<corrupt, calls, viewVars, isOnline, awaiting, lastEvent, taskData>>

HandleFetchFromServer ==
  \/ \E R \in Remotes : handleFetchFromServer(TRUE, R)
  \/ handleFetchFromServer(FALSE, <<>>)
  \/ handleFetchFromServerRejected(<<>>)

\* the same handler while the remote source holds tasks that the refetch
\* does not get to read (offline, or the fetch throws)
HandleFetchFromServerUnfetched ==
  \/ \E R \in Remotes \ {<<>>} : handleFetchFromServer(FALSE, R)
  \/ \E R \in Remotes \ {<<>>} : handleFetchFromServerRejected(R)

FetchRejected == fetchTodosRejected

Next ==
  \/ FetchOnline
  \/ FetchOffline
  \/ FetchRejected
  \/ AddTodo
  \/ UpdateTodo
  \/ ToggleComplete
  \/ DeleteTodo
  \/ HandleFetchFromServer

Spec == Init /\ [][Next]_vars

\* The one-at-a-time program with the remote collection made explicit also
\* for the confirm-sync runs that never read it.
SyncNext ==
  \/ Next
  \/ HandleFetchFromServerUnfetched

SpecSync == Init /\ [][SyncNext]_vars

\* ------------------------------------------- storage that does not parse
\* The program starts on whatever the two keys hold.  A key in `corrupt`
\* holds text that JSON.parse rejects; no operation catches that exception.
StorageKeys == {"todos", "deletedTaskIds"}

InitStorage ==
  /\ todos = <<>>
  /\ deletedTaskIds = <<>>
  /\ invalidated = TRUE
  /\ lastOp = Call("init", 0, FALSE, <<>>, <<>>, <<>>, FALSE)
  /\ corrupt \in SUBSET StorageKeys
  /\ calls = <<>>
  /\ isOnline = TRUE
  /\ isSyncing = FALSE
  /\ awaiting = [waiting |-> 0, resumed |-> 0]
  /\ lastEvent = NoEvent
  /\ taskData = NoTaskData
  /\ filter = "All"
  /\ query = NoData

\* fetchTodos: JSON.parse(localTodos) or JSON.parse(deletedTaskIds) throws
\* before NetInfo is asked and before anything is written.
FetchUnparsed ==
  /\ corrupt # {}
  /\ lastOp' = RejectedCall("fetchTodos", 0, FALSE, <<>>, <<>>, FALSE)
  /\ UNCHANGED <<todos, deletedTaskIds, invalidated, corrupt, calls, screenVars>>

\* addTodo, updateTodo, deleteTodo: JSON.parse(localTodos) throws first; the
\* mutation rejects, writes nothing and does not invalidate the query.
mutateUnparsed(op, id) ==
  /\ "todos" \in corrupt
  /\ lastOp' = RejectedCall(op, id, FALSE, <<>>, <<>>, FALSE)
  /\ UNCHANGED <<todos, deletedTaskIds, invalidated, corrupt, calls, screenVars>>

MutateUnparsed ==
  \E op \in {"addTodo", "updateTodo", "deleteTodo"}, id \in Ids :
    mutateUnparsed(op, id)

\* deleteTodo when only 'deletedTaskIds' does not parse: the task list is
\* written without the task, then JSON.parse(deletedTaskIds) throws; no id is
\* recorded and the query is not invalidated.
deleteHalfDone(id) ==
  /\ corrupt = {"deletedTaskIds"}
  /\ todos' = RemoveId(todos, id)
  /\ lastOp' = RejectedCall("deleteTodo", id, FALSE, <<>>, <<>>, FALSE)
  /\ UNCHANGED <<deletedTaskIds, invalidated, corrupt, calls, screenVars>>

DeleteHalfDone == \E id \in Ids : deleteHalfDone(id)

\* handleFetchFromServer: setItem('todos', '[]') makes that key parse again;
\* the refetch then runs, or rejects (swallowed) on 'deletedTaskIds'.
handleFetchFromServerRepairs(isConnected, serverTodos) ==
  /\ corrupt # {}
  /\ todos' = IF "deletedTaskIds" \in corrupt THEN <<>>
              ELSE StoredByFetch(<<>>, deletedTaskIds, isConnected, serverTodos)
  /\ corrupt' = corrupt \ {"todos"}
  /\ invalidated' = ("deletedTaskIds" \in corrupt)
  /\ lastOp' = Call("handleFetchFromServer", 0, isConnected, serverTodos, <<>>,
                    todos', FALSE)
  /\ isSyncing' = FALSE
  /\ UNCHANGED <<deletedTaskIds, calls, viewVars, isOnline, awaiting, lastEvent, taskData>>

HandleFetchFromServerRepairs ==
  \E isConnected \in BOOLEAN, R \in Remotes :
    handleFetchFromServerRepairs(isConnected, R)

StorageNext ==
  \/ corrupt = {} /\ Next
  \/ corrupt = {"deletedTaskIds"} /\ (AddTodo \/ UpdateTodo \/ ToggleComplete)
  \/ FetchUnparsed
  \/ MutateUnparsed
  \/ DeleteHalfDone
  \/ HandleFetchFromServerRepairs

SpecStorage == InitStorage /\ [][StorageNext]_vars

\* ------------------------------------------------------ overlapping calls
\* The hook's operations are async functions with no mutual exclusion: each
\* `await AsyncStorage.getItem/setItem` is a point where another call may run.
\* `calls` lists the calls started so far; a call holds what it has read and
\* where it stands (pc), "done" once it has returned.  The screen starts them:
\* addTodo with a new id (Date.now()), updateTodo and deleteTodo on a listed
\* task.
InFlight == {k \in DOMAIN calls : calls[k].pc # "done"}

MayStart == Len(calls) < MaxCalls /\ Cardinality(InFlight) < MaxInFlight

AllDone == InFlight = {}

Started(op, id, pc, todo) ==
  [op |-> op, id |-> id, pc |-> pc, todo |-> todo,
   parsedTodos |-> todos, parsedDeletedTaskIds |-> <<>>]

\* the call has returned: its locals are gone
Finished(c) ==
  [c EXCEPT !.pc = "done", !.parsedTodos = <<>>, !.parsedDeletedTaskIds = <<>>]

FreshIds ==
  Ids \ (IdsOf(todos) \cup DeletedSet(deletedTaskIds)
           \cup {calls[k].id : k \in DOMAIN calls})

\* fetchTodos: getItem('todos') ...  (useQuery runs one 'todos' fetch at a time)
BeginFetch ==
  /\ MayStart
  /\ \A k \in InFlight : calls[k].op # "fetchTodos"
  /\ calls' = Append(calls, Started("fetchTodos", 0, "readDeleted", NoTaskData))
  /\ UNCHANGED <<todos, deletedTaskIds, invalidated, lastOp, corrupt, screenVars>>

\* ... getItem('deletedTaskIds') ...
FetchReadsDeleted ==
  \E k \in DOMAIN calls :
    /\ calls[k].op = "fetchTodos" /\ calls[k].pc = "readDeleted"
    /\ calls' = [calls EXCEPT ![k].pc = "fetch",
                              ![k].parsedDeletedTaskIds = deletedTaskIds]
    /\ UNCHANGED <<todos, deletedTaskIds, invalidated, lastOp, corrupt, screenVars>>

\* ... NetInfo.fetch(), fetch(API_URL), setItem('todos', mergedTodos), return
FetchFinishes ==
  \E k \in DOMAIN calls, isConnected \in BOOLEAN, R \in Remotes :
    LET c == calls[k] IN
    /\ c.op = "fetchTodos" /\ c.pc = "fetch"
    /\ isConnected \/ R = <<>>
    /\ Len(mergedTodos(c.parsedTodos, c.parsedDeletedTaskIds, R)) <= MaxLen
    /\ todos' = IF isConnected
                THEN mergedTodos(c.parsedTodos, c.parsedDeletedTaskIds, R)
                ELSE todos
    /\ invalidated' = FALSE
    /\ lastOp' = Call("fetchTodos", 0, isConnected, R, c.parsedTodos,
                      ReturnedByFetch(c.parsedTodos, c.parsedDeletedTaskIds,
                                      isConnected, R), FALSE)
    /\ calls' = [calls EXCEPT ![k] = Finished(c)]
    /\ UNCHANGED <<deletedTaskIds, corrupt, screenVars>>

\* addTodo: getItem('todos') ...
BeginAdd ==
  \E newTodo \in NewTodoInputs :
    /\ MayStart
    /\ newTodo.id \in FreshIds
    /\ calls' = Append(calls, Started("addTodo", newTodo.id, "write", newTodo))
    /\ UNCHANGED <<todos, deletedTaskIds, invalidated, lastOp, corrupt, screenVars>>

\* ... setItem('todos', updatedTodos), invalidateQueries
AddWrites ==
  \E k \in DOMAIN calls :
    LET c == calls[k] IN
    /\ c.op = "addTodo" /\ c.pc = "write"
    /\ Len(c.parsedTodos) < MaxLen
    /\ todos' = PrependNew(c.todo, c.parsedTodos)
    /\ invalidated' = TRUE
    /\ lastOp' = Call("addTodo", c.id, FALSE, <<>>, <<>>, <<>>, FALSE)
    /\ calls' = [calls EXCEPT ![k] = Finished(c)]
    /\ UNCHANGED <<deletedTaskIds, corrupt, screenVars>>

\* updateTodo: getItem('todos') ...
BeginUpdate ==
  \E updatedTodo \in UpdatedTodoInputs :
    /\ MayStart
    /\ updatedTodo.id \in IdsOf(todos)
    /\ calls' = Append(calls, Started("updateTodo", updatedTodo.id, "write", updatedTodo))
    /\ UNCHANGED <<todos, deletedTaskIds, invalidated, lastOp, corrupt, screenVars>>

\* ... setItem('todos', updatedTodos), invalidateQueries
UpdateWrites ==
  \E k \in DOMAIN calls :
    LET c == calls[k] IN
    /\ c.op = "updateTodo" /\ c.pc = "write"
    /\ todos' = MapUpdate(c.parsedTodos, c.todo)
    /\ invalidated' = TRUE
    /\ lastOp' = Call("updateTodo", c.id, FALSE, <<>>, <<>>, <<>>, FALSE)
    /\ calls' = [calls EXCEPT ![k] = Finished(c)]
    /\ UNCHANGED <<deletedTaskIds, corrupt, screenVars>>

\* deleteTodo: getItem('todos') ...
BeginDelete ==
  \E id \in IdsOf(todos) :
    /\ MayStart
    /\ calls' = Append(calls, Started("deleteTodo", id, "writeTodos", NoTaskData))
    /\ UNCHANGED <<todos, deletedTaskIds, invalidated, lastOp, corrupt, screenVars>>

\* ... setItem('todos', updatedTodos) ...
DeleteWritesTodos ==
  \E k \in DOMAIN calls :
    LET c == calls[k] IN
    /\ c.op = "deleteTodo" /\ c.pc = "writeTodos"
    /\ todos' = RemoveId(c.parsedTodos, c.id)
    /\ calls' = [calls EXCEPT ![k].pc = "readDeleted", ![k].parsedTodos = <<>>]
    /\ UNCHANGED <<deletedTaskIds, invalidated, lastOp, corrupt, screenVars>>

\* ... getItem('deletedTaskIds') ...
DeleteReadsDeleted ==
  \E k \in DOMAIN calls :
    /\ calls[k].op = "deleteTodo" /\ calls[k].pc = "readDeleted"
    /\ calls' = [calls EXCEPT ![k].pc = "writeDeleted",
                              ![k].parsedDeletedTaskIds = deletedTaskIds]
    /\ UNCHANGED <<todos, deletedTaskIds, invalidated, lastOp, corrupt, screenVars>>

\* ... setItem('deletedTaskIds', updatedDeletedTaskIds), invalidateQueries
DeleteWritesDeleted ==
  \E k \in DOMAIN calls :
    LET c == calls[k] IN
    /\ c.op = "deleteTodo" /\ c.pc = "writeDeleted"
    /\ Len(c.parsedDeletedTaskIds) < MaxDeleted
    /\ deletedTaskIds' = AppendDeleted(c.parsedDeletedTaskIds, c.id)
    /\ invalidated' = TRUE
    /\ lastOp' = Call("deleteTodo", c.id, FALSE, <<>>, <<>>, <<>>, FALSE)
    /\ calls' = [calls EXCEPT ![k] = Finished(c)]
    /\ UNCHANGED <<todos, corrupt, screenVars>>

OverlapNext ==
  \/ BeginFetch
  \/ FetchReadsDeleted
  \/ FetchFinishes
  \/ BeginAdd
  \/ AddWrites
  \/ BeginUpdate
  \/ UpdateWrites
  \/ BeginDelete
  \/ DeleteWritesTodos
  \/ DeleteReadsDeleted
  \/ DeleteWritesDeleted

SpecOverlap == Init /\ [][OverlapNext]_vars

\* ------------------------------------------------------ connectivity listener
\* AllTasks subscribes an async listener to NetInfo.  A run of the listener on
\* a connected event sets both flags, awaits invalidateQueries('todos') and,
\* resumed, lowers isSyncing; `awaiting` counts the runs that wait for the
\* refetch and the runs whose await has returned.
Event(isConnected) ==
  [isConnected |-> IF isConnected THEN "true" ELSE "false",
   parity |-> 1 - lastEvent.parity]

\* if (state.isConnected) { setIsOnline(true); setIsSyncing(true);
\*                          await queryClient.invalidateQueries('todos'); ...
NetInfoConnected ==
  /\ awaiting.waiting + awaiting.resumed < MaxWaiting
  /\ isOnline' = TRUE
  /\ isSyncing' = TRUE
  /\ invalidated' = TRUE
  /\ awaiting' = [awaiting EXCEPT !.waiting = @ + 1]
  /\ lastEvent' = Event(TRUE)
  /\ UNCHANGED <<todos, deletedTaskIds, lastOp, corrupt, calls, viewVars, taskData>>

\* else { setIsOnline(false); }
NetInfoNotConnected ==
  /\ isOnline' = FALSE
  /\ lastEvent' = Event(FALSE)
  /\ UNCHANGED <<todos, deletedTaskIds, invalidated, lastOp, corrupt, calls, viewVars,
                 isSyncing, awaiting, taskData>>

\* invalidateQueries resolves when the refetch has settled and swallows its
\* rejection: every waiting listener run gets its await back
AfterInvalidate_Throws(a, rejected) ==
  IF rejected THEN [waiting |-> 0, resumed |-> a.resumed]
  ELSE [waiting |-> 0, resumed |-> a.resumed + a.waiting]

AfterInvalidate(a, rejected) ==
  [waiting |-> 0, resumed |-> a.resumed + a.waiting]

\* the refetch of 'todos' started by invalidateQueries settles
reloadSettles(isConnected, serverTodos, rejected) ==
  /\ awaiting.waiting > 0
  /\ rejected => isConnected /\ serverTodos = <<>>
  /\ Len(StoredByFetch(todos, deletedTaskIds, isConnected, serverTodos)) <= MaxLen
  /\ todos' = IF rejected THEN todos
              ELSE StoredByFetch(todos, deletedTaskIds, isConnected, serverTodos)
  /\ invalidated' = IF rejected THEN invalidated ELSE FALSE
  /\ lastOp' = IF rejected
               THEN RejectedCall("fetchTodos", 0, TRUE, <<>>, todos, TRUE)
               ELSE Call("fetchTodos", 0, isConnected, serverTodos, todos,
                         ReturnedByFetch(todos, deletedTaskIds, isConnected, serverTodos),
                         FALSE)
  /\ awaiting' = AfterInvalidate(awaiting, rejected)
  /\ UNCHANGED <<deletedTaskIds, corrupt, calls, viewVars, isOnline, isSyncing, lastEvent, taskData>>

ReloadSettles ==
  \/ \E R \in Remotes : reloadSettles(TRUE, R, FALSE)
  \/ reloadSettles(FALSE, <<>>, FALSE)
  \/ reloadSettles(TRUE, <<>>, TRUE)

\* ... setIsSyncing(false); }
ListenerResumes ==
  /\ awaiting.resumed > 0
  /\ isSyncing' = FALSE
  /\ awaiting' = [awaiting EXCEPT !.resumed = @ - 1]
  /\ UNCHANGED <<todos, deletedTaskIds, invalidated, lastOp, corrupt, calls, viewVars,
                 isOnline, lastEvent, taskData>>

ScreenNext ==
  \/ NetInfoConnected
  \/ NetInfoNotConnected
  \/ ReloadSettles
  \/ ListenerResumes

\* A started refetch settles (the request completes or fails) and a resolved
\* await resumes; NetInfo events come whenever the platform sends them.
SpecScreen ==
  /\ Init
  /\ [][ScreenNext]_vars
  /\ WF_vars(ReloadSettles)
  /\ WF_vars(ListenerResumes)

\* ------------------------------------------------------ connectivity listener: claims
NetInfoEvent == lastEvent' # lastEvent

\* C16: a connected event sets isOnline and isSyncing and starts a refetch of
\* 'todos'; a not-connected event only clears isOnline; a listener run whose
\* refetch has settled lowers isSyncing; so isSyncing is false again after
\* every event, and isOnline is the isConnected of the last event.
C16_ListenerFlags ==
  /\ [][NetInfoEvent /\ lastEvent'.isConnected = "true" =>
          /\ isOnline' /\ isSyncing' /\ invalidated'
          /\ awaiting'.waiting = awaiting.waiting + 1]_vars
  /\ [][NetInfoEvent /\ lastEvent'.isConnected = "false" =>
          /\ ~isOnline'
          /\ UNCHANGED <<isSyncing, awaiting, invalidated, todos, deletedTaskIds>>]_vars
  /\ [][awaiting'.resumed < awaiting.resumed => ~isSyncing']_vars
  /\ [](lastEvent # NoEvent => <>(~isSyncing))
  /\ [](lastEvent # NoEvent => (isOnline <=> lastEvent.isConnected = "true"))

\* a connected event has come, its refetch has stored server todos and the
\* listener has lowered isSyncing again
C16_Witness ==
  /\ lastEvent.isConnected = "true"
  /\ awaiting = [waiting |-> 0, resumed |-> 0]
  /\ ~isSyncing /\ isOnline
  /\ lastOp.op = "fetchTodos" /\ todos # <<>>

\* ------------------------------------------------------ add/edit form
\* What the user can have typed into the title input, and each text as its
\* characters.
FormTitles == {"", " ", "A"}

Chars(text) ==
  CASE text = "" -> <<>>
    [] text = " " -> <<" ">>
    [] text = "A" -> <<"A">>
    [] text = "S" -> <<"S">>

Whitespace == {" "}

RECURSIVE TrimStart(_)
TrimStart(cs) ==
  IF cs = <<>> THEN <<>>
  ELSE IF Head(cs) \in Whitespace THEN TrimStart(Tail(cs)) ELSE cs

RECURSIVE TrimEnd(_)
TrimEnd(cs) ==
  IF cs = <<>> THEN <<>>
  ELSE IF cs[Len(cs)] \in Whitespace THEN TrimEnd(SubSeq(cs, 1, Len(cs) - 1)) ELSE cs

\* String.prototype.trim
Trim(cs) == TrimEnd(TrimStart(cs))

\* mutant: the title is tested without trim()
Truthy_Untrimmed(text) == Chars(text) # <<>>

\* if (taskData.title.trim()): the trimmed title is not the empty string
Truthy(text) == Trim(Chars(text)) # <<>>

\* task.description || ''
OrEmpty(description) == IF description = NoDescription THEN "" ELSE description

\* onChangeText of the title input.  (The modal state is not modelled: while
\* the modal is closed taskData is the reset value, so typing there is typing
\* into the add form just opened.)
OnChangeTitle ==
  \E text \in FormTitles :
    /\ taskData' = [taskData EXCEPT !.title = text]
    /\ UNCHANGED <<todos, deletedTaskIds, invalidated, lastOp, corrupt, calls, viewVars,
                   isOnline, isSyncing, awaiting, lastEvent>>

\* the edit button of a listed task
openEditModal(task) ==
  /\ taskData' = [id |-> task.id, title |-> task.title,
                  description |-> OrEmpty(task.description),
                  completed |-> task.completed]
  /\ UNCHANGED <<todos, deletedTaskIds, invalidated, lastOp, corrupt, calls, viewVars,
                 isOnline, isSyncing, awaiting, lastEvent>>

OpenEditModal == \E i \in DOMAIN todos : openEditModal(todos[i])

\* Cancel, onRequestClose and the Add Task button
resetModal ==
  /\ taskData' = NoTaskData
  /\ UNCHANGED <<todos, deletedTaskIds, invalidated, lastOp, corrupt, calls, viewVars,
                 isOnline, isSyncing, awaiting, lastEvent>>

\* the submit button; id 0 stands for taskData.id = null, and Date.now() is
\* an id not used so far.  A submit that passes the title test runs the
\* mutation and resets the form; lastOp records the submit that did nothing.
handleAddOrEditTask ==
  /\ IF Truthy(taskData.title)
     THEN /\ IF taskData.id # 0
             THEN /\ todos' = MapUpdate(todos,
                                 [id |-> taskData.id, title |-> taskData.title,
                                  description |-> OrEmpty(taskData.description),
                                  completed |-> taskData.completed])
                  /\ lastOp' = Call("updateTodo", taskData.id, FALSE, <<>>, <<>>, <<>>, FALSE)
             ELSE \E now \in FreshIds :
                  /\ Len(todos) < MaxLen
                  /\ todos' = PrependNew(
                                 [id |-> now, title |-> taskData.title,
                                  description |-> OrEmpty(taskData.description),
                                  completed |-> FALSE], todos)
                  /\ lastOp' = Call("addTodo", now, FALSE, <<>>, <<>>, <<>>, FALSE)
          /\ invalidated' = TRUE
          /\ taskData' = NoTaskData
     ELSE /\ lastOp' = Call("handleAddOrEditTask", 0, FALSE, <<>>, <<>>, <<>>, FALSE)
          /\ UNCHANGED <<todos, invalidated, taskData>>
  /\ UNCHANGED <<deletedTaskIds, corrupt, calls, viewVars, isOnline, isSyncing, awaiting, lastEvent>>

FormNext ==
  \/ OnChangeTitle
  \/ OpenEditModal
  \/ resetModal
  \/ handleAddOrEditTask
  \/ FetchOnline
  \/ DeleteTodo

SpecForm == Init /\ [][FormNext]_vars

\* ------------------------------------------------------ add/edit form: claims
IsBlank(text) == \A k \in DOMAIN Chars(text) : Chars(text)[k] \in Whitespace

\* C20: a step taken while the form's title is empty or only whitespace, the
\* submit included, runs neither addTodo nor updateTodo and leaves storage as
\* it is; and every stored task that the form created or edited (the tasks
\* with isSynced = false here) has a title that is not blank.
C20_BlankTitleNotSubmitted ==
  /\ [][IsBlank(taskData.title) =>
          \/ lastOp' = lastOp /\ UNCHANGED <<todos, deletedTaskIds>>
          \/ lastOp'.op \notin {"addTodo", "updateTodo", "toggleComplete"}
             /\ UNCHANGED <<todos, deletedTaskIds>>
          \/ lastOp'.op \in {"fetchTodos", "deleteTodo"}]_vars
  /\ [](\A i \in DOMAIN todos : ~todos[i].isSynced => ~IsBlank(todos[i].title))

\* the form was submitted with a blank title and did nothing
C20_Witness ==
  /\ lastOp.op = "handleAddOrEditTask"
  /\ IsBlank(taskData.title) /\ taskData.title # ""
  /\ taskData.id # 0
  /\ todos # <<>>

\* ------------------------------------------------------ filtered list
filterArr == {"All", "Pending", "Completed"}

\* mutant: the Pending view keeps every task
Kept_PendingKeepsAll(todo, status) ==
  IF status = "Pending" THEN TRUE ELSE todo.completed

\* filter === 'Pending' ? !todo.completed : todo.completed
Kept(todo, status) ==
  IF status = "Pending" THEN ~todo.completed ELSE todo.completed

\* the useMemo of filteredTodos, from the query's data and the filter state
filteredTodos(q, status) ==
  IF ~q.hasData THEN <<>>
  ELSE IF status = "All" THEN q.data
  ELSE SelectSeq(q.data, LAMBDA todo : Kept(todo, status))

\* a filter button: setFilter(status)
setFilter ==
  \E status \in filterArr :
    /\ filter' = status
    /\ UNCHANGED <<todos, deletedTaskIds, invalidated, lastOp, corrupt, calls,
                   isOnline, isSyncing, awaiting, lastEvent, taskData, query>>

\* useQuery('todos', fetchTodos): the query function returns and its result
\* becomes the screen's todos
querySettles(isConnected, serverTodos) ==
  /\ Len(StoredByFetch(todos, deletedTaskIds, isConnected, serverTodos)) <= MaxLen
  /\ todos' = StoredByFetch(todos, deletedTaskIds, isConnected, serverTodos)
  /\ invalidated' = FALSE
  /\ lastOp' = Call("fetchTodos", 0, isConnected, serverTodos, todos,
                    ReturnedByFetch(todos, deletedTaskIds, isConnected, serverTodos),
                    FALSE)
  /\ query' = [hasData |-> TRUE,
               data |-> ReturnedByFetch(todos, deletedTaskIds, isConnected, serverTodos)]
  /\ UNCHANGED <<deletedTaskIds, corrupt, calls, isOnline, isSyncing, awaiting,
                 lastEvent, taskData, filter>>

QuerySettles ==
  \/ \E R \in Remotes : querySettles(TRUE, R)
  \/ querySettles(FALSE, <<>>)

\* the checkbox of a displayed task: toggleComplete(item)
PressCheckbox ==
  \E k \in DOMAIN filteredTodos(query, filter) :
    toggleComplete(filteredTodos(query, filter)[k])

ViewNext ==
  \/ setFilter
  \/ QuerySettles
  \/ PressCheckbox

SpecView == Init /\ [][ViewNext]_vars

\* ------------------------------------------------------ claim vocabulary
OnlineFetch(call) == call.op = "fetchTodos" /\ call.online /\ ~call.threw

OfflineFetch(call) == call.op = "fetchTodos" /\ ~call.online

SyncedCount(s, i) == Cardinality({k \in DOMAIN s : s[k].id = i /\ s[k].isSynced})

\* id i is recorded as deleted and no stored task carries it
Tombstoned(i) == i \in DeletedSet(deletedTaskIds) /\ i \notin IdsOf(todos)

\* ---------------------------------------------------------------- C1
\* C1: the list an online fetchTodos returns and persists contains no task
\* whose id is in the deleted-id list.
C1_OnlineResultHasNoDeletedId ==
  OnlineFetch(lastOp) =>
    /\ IdsOf(lastOp.ret) \cap DeletedSet(deletedTaskIds) = {}
    /\ IdsOf(todos) \cap DeletedSet(deletedTaskIds) = {}

\* ---------------------------------------------------------------- C2
\* C2: once deleteTodo(id) has completed, id is in the deleted-id list and in
\* no stored task, and this stays so across every step that is not an
\* addTodo of that id; in particular no online fetchTodos, whatever its remote
\* collection holds, returns or persists a task with that id.
C2_DeletedStaysAbsent ==
  [][\A i \in Ids :
       /\ (lastOp'.op = "deleteTodo" /\ lastOp'.id = i) => Tombstoned(i)'
       /\ (Tombstoned(i) /\ ~(lastOp'.op = "addTodo" /\ lastOp'.id = i)) =>
            /\ Tombstoned(i)'
            /\ OnlineFetch(lastOp') => i \notin IdsOf(lastOp'.ret)]_vars

\* an online fetch whose remote collection held a deleted id, which stayed out
C2_Witness ==
  /\ OnlineFetch(lastOp)
  /\ \E j \in DOMAIN lastOp.R :
       /\ lastOp.R[j].id \in DeletedSet(deletedTaskIds)
       /\ lastOp.R[j].id \notin IdsOf(lastOp.ret)
       /\ lastOp.R[j].id \notin IdsOf(todos)

\* ---------------------------------------------------------------- C3
\* C3: an offline fetchTodos returns exactly the stored task list and writes
\* neither the task list nor the deleted-id list; an offline call right after
\* an offline call returns the same list again.
C3_OfflineReturnsLocal ==
  [][OfflineFetch(lastOp') =>
       /\ lastOp'.ret = todos
       /\ todos' = todos
       /\ deletedTaskIds' = deletedTaskIds
       /\ OfflineFetch(lastOp) => lastOp'.ret = lastOp.ret]_vars

\* an offline fetch over a non-empty list with a non-empty deleted-id list
C3_Witness ==
  /\ OfflineFetch(lastOp)
  /\ Len(lastOp.L) >= 2
  /\ lastOp.ret = lastOp.L
  /\ deletedTaskIds # <<>>

\* ---------------------------------------------------------------- C4
\* C4: in an online fetchTodos the stored list is a prefix of the result,
\* every task after that prefix comes from the remote collection with an id
\* no local task has and carries isSynced = true, and the result is what is
\* persisted.
C4_LocalWins ==
  [][OnlineFetch(lastOp') =>
       LET res == lastOp'.ret
           R == lastOp'.R
       IN  /\ Len(res) >= Len(todos)
           /\ SubSeq(res, 1, Len(todos)) = todos
           /\ \A k \in (Len(todos) + 1)..Len(res) :
                /\ res[k].isSynced = TRUE
                /\ res[k].id \notin IdsOf(todos)
                /\ \E j \in DOMAIN R :
                     /\ R[j].id = res[k].id
                     /\ R[j].title = res[k].title
                     /\ R[j].completed = res[k].completed
           /\ todos' = res]_vars

\* an online fetch where the remote held the id of an unsynced local task
\* (kept as it was) and also a task that was added
C4_Witness ==
  /\ OnlineFetch(lastOp)
  /\ Len(lastOp.ret) > Len(lastOp.L)
  /\ \E j \in DOMAIN lastOp.R, k \in DOMAIN lastOp.L :
       /\ lastOp.R[j].id = lastOp.L[k].id
       /\ lastOp.L[k].isSynced = FALSE
       /\ lastOp.ret[k] = lastOp.L[k]

\* ---------------------------------------------------------------- C5
\* C5: with an empty deleted-id list and a remote collection sharing no id
\* with the stored list, an online fetchTodos returns the stored list followed
\* by the remote tasks in remote order, each with isSynced = true, so the
\* result has length |L| + |R|.
C5_DisjointConcat ==
  [][(/\ OnlineFetch(lastOp')
      /\ deletedTaskIds = <<>>
      /\ IdsOf(todos) \cap IdsOf(lastOp'.R) = {}) =>
       LET res == lastOp'.ret
           R == lastOp'.R
           n == Len(todos)
       IN  /\ Len(res) = n + Len(R)
           /\ \A k \in 1..n : res[k] = todos[k]
           /\ \A k \in DOMAIN R :
                /\ res[n + k].id = R[k].id
                /\ res[n + k].title = R[k].title
                /\ res[n + k].completed = R[k].completed
                /\ res[n + k].isSynced = TRUE]_vars

\* an online fetch of a non-empty remote collection, disjoint from a
\* non-empty stored list, with no deleted ids
C5_Witness ==
  /\ OnlineFetch(lastOp)
  /\ deletedTaskIds = <<>>
  /\ lastOp.L # <<>>
  /\ lastOp.R # <<>>
  /\ IdsOf(lastOp.L) \cap IdsOf(lastOp.R) = {}
  /\ Len(lastOp.ret) = Len(lastOp.L) + Len(lastOp.R)

\* ---------------------------------------------------------------- C6
\* C6: an online fetchTodos that directly follows an online fetchTodos with
\* the same remote collection returns the same list and leaves the persisted
\* list as the first call left it.
C6_OnlineIdempotent ==
  [][(/\ OnlineFetch(lastOp)
      /\ OnlineFetch(lastOp')
      /\ lastOp'.R = lastOp.R) =>
       /\ lastOp'.ret = lastOp.ret
       /\ todos' = todos
       /\ todos' = lastOp.ret]_vars

\* the second of two online fetches of the same non-empty remote collection,
\* whose tasks the first call had merged in
C6_Witness ==
  /\ OnlineFetch(lastOp)
  /\ lastOp.again
  /\ lastOp.ret = lastOp.L
  /\ \E j \in DOMAIN lastOp.R :
       /\ CountId(todos, lastOp.R[j].id) = 1
       /\ \E k \in DOMAIN todos :
            todos[k].id = lastOp.R[j].id /\ todos[k].isSynced

\* ---------------------------------------------------------------- C7
\* C7: no two tasks of the persisted task list have the same id.
C7_UniqueIds == \A i \in Ids : CountId(todos, i) <= 1

\* ---------------------------------------------------------------- C8
\* C8: no task of the persisted task list has an id that is in the persisted
\* deleted-id list.
C8_NoDeletedIdStored == IdsOf(todos) \cap DeletedSet(deletedTaskIds) = {}

\* ---------------------------------------------------------------- C9
\* C9: an offline fetchTodos right after addTodo(t) returns a list in which
\* t's id appears exactly once, with isSynced = false.
C9_AddedAppearsOnce ==
  [][(lastOp.op = "addTodo" /\ OfflineFetch(lastOp')) =>
       /\ CountId(lastOp'.ret, lastOp.id) = 1
       /\ SyncedCount(lastOp'.ret, lastOp.id) = 0]_vars

\* --------------------------------------------------------------- C10
\* C10 as stated: after addTodo the new head record, and after updateTodo or
\* toggleComplete every record of that id, has isSynced = false; and no step
\* of the program raises the number of isSynced = true records of an id that
\* is already stored.
C10_NeverSyncedAgain ==
  [][\A i \in Ids :
       /\ (lastOp'.op = "addTodo" /\ lastOp'.id = i) =>
            (todos'[1].id = i /\ todos'[1].isSynced = FALSE)
       /\ (lastOp'.op \in {"updateTodo", "toggleComplete"} /\ lastOp'.id = i) =>
            SyncedCount(todos', i) = 0
       /\ i \in IdsOf(todos) => SyncedCount(todos', i) <= SyncedCount(todos, i)]_vars

\* C10 amended: the same, for every step other than the confirm-sync action
\* (handleFetchFromServer), which clears the stored list before it refetches.
C10_NeverSyncedByHook ==
  [][\A i \in Ids :
       /\ (lastOp'.op = "addTodo" /\ lastOp'.id = i) =>
            (todos'[1].id = i /\ todos'[1].isSynced = FALSE)
       /\ (lastOp'.op \in {"updateTodo", "toggleComplete"} /\ lastOp'.id = i) =>
            SyncedCount(todos', i) = 0
       /\ (i \in IdsOf(todos) /\ lastOp'.op # "handleFetchFromServer") =>
            SyncedCount(todos', i) <= SyncedCount(todos, i)]_vars

\* an online fetch whose remote collection held the id of a task that was
\* edited locally, and that task is still not synced
C10_Witness ==
  /\ OnlineFetch(lastOp)
  /\ \E j \in DOMAIN lastOp.R, k \in DOMAIN todos :
       /\ lastOp.R[j].id = todos[k].id
       /\ todos[k].title \in Titles
       /\ todos[k].isSynced = FALSE
       /\ SyncedCount(todos, todos[k].id) = 0

\* --------------------------------------------------------------- C11
\* C11: a fetchTodos that is connected but whose remote fetch fails returns
\* the stored task list, raises no error and leaves both storage keys as they
\* were.
C11_FetchFailureFallsBack ==
  [][(lastOp'.op = "fetchTodos" /\ lastOp'.online /\ lastOp'.fetchFailed) =>
       /\ ~lastOp'.threw
       /\ lastOp'.ret = todos
       /\ todos' = todos
       /\ deletedTaskIds' = deletedTaskIds]_vars

\* --------------------------------------------------------------- C12
\* C12: whatever the two storage keys hold (absent or unparseable text), no
\* fetchTodos, addTodo, updateTodo or deleteTodo call fails on reading them:
\* the only rejection a call can end in is a failed remote fetch.
C12_StorageNeverFailsCaller == lastOp.threw => lastOp.fetchFailed

\* --------------------------------------------------------------- C13
\* C13: updateTodo never raises and never touches the deleted-id list; with
\* an id that no stored task has it leaves the task list as it was; with an
\* id that is stored the list keeps its length and the ids at every position,
\* every task of another id is unchanged, and the entries of that id have
\* isSynced = false.
C13_UpdateFrame ==
  [][lastOp'.op = "updateTodo" =>
       LET i == lastOp'.id
       IN  /\ ~lastOp'.threw
           /\ deletedTaskIds' = deletedTaskIds
           /\ Len(todos') = Len(todos)
           /\ i \notin IdsOf(todos) => todos' = todos
           /\ \A k \in DOMAIN todos :
                /\ todos'[k].id = todos[k].id
                /\ todos[k].id # i => todos'[k] = todos[k]
                /\ todos[k].id = i => todos'[k].isSynced = FALSE]_vars

\* an updateTodo of an id that was deleted before, over a non-empty list
C13_Witness ==
  /\ lastOp.op = "updateTodo"
  /\ lastOp.id \notin IdsOf(todos)
  /\ lastOp.id \in DeletedSet(deletedTaskIds)
  /\ todos # <<>>

C19_ConfirmSyncReplaces ==
  [][lastOp'.op = "handleFetchFromServer" =>
       LET R == lastOp'.R
           kept == {k \in DOMAIN R : R[k].id \notin DeletedSet(deletedTaskIds)}
       IN  /\ Len(todos') = Cardinality(kept)
           /\ \A k \in kept :
                LET t == todos'[Cardinality({j \in kept : j <= k})]
                IN  /\ t.id = R[k].id
                    /\ t.title = R[k].title
                    /\ t.completed = R[k].completed
                    /\ t.isSynced = TRUE
           /\ deletedTaskIds' = deletedTaskIds]_vars

\* ------------------------------------------------------ overlapping calls: claims
CallsOf(op) == {k \in DOMAIN calls : calls[k].op = op}

CallsOn(op, id) == {k \in CallsOf(op) : calls[k].id = id}

\* C15: the deleted-id list only grows, also when two deleteTodo calls
\* interleave: no step removes an id from the persisted deletedTaskIds.
C15_DeletedOnlyGrows ==
  [][DeletedSet(deletedTaskIds) \subseteq DeletedSet(deletedTaskIds')]_vars

\* C17: when one deleteTodo(id) and fetchTodos calls (and nothing else) have
\* run, overlapping in any way, and all have finished, the persisted list
\* holds no task whose id is in deletedTaskIds.
C17_NoResurrectionUnderOverlap ==
  ( /\ AllDone
    /\ Cardinality(CallsOf("deleteTodo")) = 1
    /\ DOMAIN calls = CallsOf("deleteTodo") \cup CallsOf("fetchTodos") )
  => \A id \in DeletedSet(deletedTaskIds) : CountId(todos, id) = 0

\* C18: when all calls have finished, the persisted list holds every task
\* whose addTodo completed and shows every completed updateTodo (a single
\* update of a task shows with its title and completed flag, unsynced),
\* unless a deleteTodo of that task was started.
C18_NoLostTask ==
  AllDone =>
    \A k \in CallsOf("addTodo") \cup CallsOf("updateTodo") :
      LET c == calls[k] IN
      CallsOn("deleteTodo", c.id) = {} =>
        /\ c.id \in IdsOf(todos)
        /\ (c.op = "updateTodo" /\ CallsOn("updateTodo", c.id) = {k}
               /\ CallsOn("addTodo", c.id) = {}) =>
              \E i \in DOMAIN todos :
                /\ todos[i].id = c.id
                /\ todos[i].title = c.todo.title
                /\ todos[i].completed = c.todo.completed
                /\ ~todos[i].isSynced

\* --------------------------------------------------------------- C21
\* what toggleComplete hands to updateTodo.mutate for a listed task
Toggled(todo) == [todo EXCEPT !.completed = ~todo.completed]

\* C21: toggleComplete changes, of the stored tasks with the toggled id, only
\* the completed flag (inverted) and isSynced (set to false), and leaves the
\* other tasks and the deleted-id list alone; and toggling a listed task and
\* then the reloaded task at its place gives back its completed value with
\* title and description as they were.
C21_ToggleOnlyCompleted ==
  /\ [][lastOp'.op = "toggleComplete" =>
          /\ deletedTaskIds' = deletedTaskIds
          /\ Len(todos') = Len(todos)
          /\ \A k \in DOMAIN todos :
               todos'[k] = IF todos[k].id = lastOp'.id
                           THEN [todos[k] EXCEPT !.completed = ~todos[k].completed,
                                                 !.isSynced = FALSE]
                           ELSE todos[k]]_vars
  /\ [](\A k \in DOMAIN todos :
          LET once == MapUpdate(todos, Toggled(todos[k]))
              twice == MapUpdate(once, Toggled(once[k]))
          IN  /\ twice[k].completed = todos[k].completed
              /\ twice[k].title = todos[k].title
              /\ twice[k].description = todos[k].description)

\* --------------------------------------------------------------- C22
\* the positions of the query's data whose task has this completed value
WithCompleted(value) == {k \in DOMAIN query.data : query.data[k].completed = value}

\* view holds exactly the tasks at the positions in keep, in list order
IsSubList(view, keep) ==
  /\ Len(view) = Cardinality(keep)
  /\ \A k \in keep : view[Cardinality({j \in keep : j <= k})] = query.data[k]

\* C22: the Pending view is exactly the tasks with completed = false and the
\* Completed view exactly those with completed = true, each in list order, so
\* the two views share the list between them; the All view is the whole
\* list; and while the list is undefined every view is empty.
C22_ViewsPartition ==
  /\ query.hasData =>
       /\ IsSubList(filteredTodos(query, "Pending"), WithCompleted(FALSE))
       /\ IsSubList(filteredTodos(query, "Completed"), WithCompleted(TRUE))
       /\ Len(filteredTodos(query, "Pending")) + Len(filteredTodos(query, "Completed"))
            = Len(query.data)
       /\ filteredTodos(query, "All") = query.data
  /\ ~query.hasData => \A status \in filterArr : filteredTodos(query, status) = <<>>

\* the Completed view is displayed over a list that holds a completed task
\* after a pending one
C22_Witness ==
  /\ query.hasData
  /\ filter = "Completed"
  /\ Len(query.data) = 2
  /\ ~query.data[1].completed /\ query.data[2].completed
  /\ Len(filteredTodos(query, filter)) = 1

TypeOK ==
  /\ todos \in Seq(Todo) /\ Len(todos) <= MaxLen
  /\ deletedTaskIds \in Seq(Ids) /\ Len(deletedTaskIds) <= MaxDeleted
  /\ invalidated \in BOOLEAN
====
